---------------------------- MODULE Spec2Model ----------------------------
(***************************************************************************)
(* Model of annotate-me.ts: the parse stage (unsanitizedNumber), the range *)
(* stage (sanitizedNumber), the error reporter (showError) and the         *)
(* interaction loop of the async main function.                            *)
(*                                                                         *)
(* Text is a sequence of one-character strings.  A JavaScript number is a  *)
(* record: NaN, or the rational num/den (den = 1 for the integers, den = 2 *)
(* for the halves such as 0.5 and 9.5).                                    *)
(***************************************************************************)
EXTENDS Integers, Sequences, FiniteSets, TLC

VARIABLES
    \* ---- the interaction loop (lines 88-118) ----
    pc,           \* "start" | "awaiting" | "done" | "fatal" | "threw"
    finalNumber,  \* the loop's current result (line 92)
    stdin,        \* what the user has sent and no read has consumed yet
    closed,       \* the writing end of stdin is closed for good
    stdout,       \* lines written by console.log
    stderr,       \* lines written by console.error
    exitCode,     \* the process exit status, NotExited while it runs
    typedLines,   \* history: every line the user has sent, in order
    reads,        \* history: the text each iteration's readFile returned
    \* ---- direct calls of the two stages ----
    text,         \* argument of unsanitizedNumber
    parsed,       \* its result, NotCalled before the call
    unsan,        \* argument of sanitizedNumber
    sanitized,    \* its result, NotCalled before the call
    rangeChecked  \* the call evaluated the condition of line 68

vars == <<pc, finalNumber, stdin, closed, stdout, stderr, exitCode,
          typedLines, reads, text, parsed, unsan, sanitized, rangeChecked>>

loopVars == <<pc, finalNumber, stdin, closed, stdout, stderr, exitCode,
              typedLines, reads>>

callVars == <<text, parsed, unsan, sanitized, rangeChecked>>

-----------------------------------------------------------------------------
(* Bounds *)

\* longest text handed to unsanitizedNumber directly
MaxLen == 3

\* largest magnitude of a payload handed to sanitizedNumber directly
MaxVal == 12

\* lines the user sends in one run
MaxLines == 3

\* ends of input (Ctrl-D on a terminal) the user signals in one run
MaxEof == 2

\* iterations of the do-while loop in one run
MaxIter == 3

-----------------------------------------------------------------------------
(* JavaScript numbers *)

NaN == [nan |-> TRUE, num |-> 0, den |-> 1]

Num(n) == [nan |-> FALSE, num |-> n, den |-> 1]

Half(k) == [nan |-> FALSE, num |-> k, den |-> 2]

isNaN(x) == x.nan

\* x > y; false when either side is NaN
JsGreater(x, y) == ~x.nan /\ ~y.nan /\ x.num * y.den > y.num * x.den

\* x <= y; false when either side is NaN
JsLessEq(x, y) == ~x.nan /\ ~y.nan /\ x.num * y.den <= y.num * x.den

-----------------------------------------------------------------------------
(* The variant model *)

Null == [kind |-> "null"]

InvalidNumber == [kind |-> "invalid-number"]

UnsanitizedNumber(v) == [kind |-> "unsanitized-number", value |-> v]

SanitizedNumber(v) == [kind |-> "sanitized-number", value |-> v]

-----------------------------------------------------------------------------
(* parseInt(string) called without a radix, as ECMAScript defines it *)

WhiteSpace == {" ", "\t", "\n", "\r"}

DecDigits == <<"0", "1", "2", "3", "4", "5", "6", "7", "8", "9">>

HexLower == <<"a", "b", "c", "d", "e", "f">>

HexUpper == <<"A", "B", "C", "D", "E", "F">>

\* the value of character c as a digit, -1 when it is none
DigitVal(c) ==
    IF \E i \in 1..Len(DecDigits) : DecDigits[i] = c
    THEN (CHOOSE i \in 1..Len(DecDigits) : DecDigits[i] = c) - 1
    ELSE IF \E i \in 1..Len(HexLower) : HexLower[i] = c
    THEN (CHOOSE i \in 1..Len(HexLower) : HexLower[i] = c) + 9
    ELSE IF \E i \in 1..Len(HexUpper) : HexUpper[i] = c
    THEN (CHOOSE i \in 1..Len(HexUpper) : HexUpper[i] = c) + 9
    ELSE -1

IsDigit(c, radix) == DigitVal(c) >= 0 /\ DigitVal(c) < radix

RECURSIVE TrimStart(_)
TrimStart(s) ==
    IF s # <<>> /\ Head(s) \in WhiteSpace THEN TrimStart(Tail(s)) ELSE s

\* the number of leading characters of s that are digits of the radix
RECURSIVE DigitPrefixLen(_, _)
DigitPrefixLen(s, radix) ==
    IF s # <<>> /\ IsDigit(Head(s), radix)
    THEN 1 + DigitPrefixLen(Tail(s), radix)
    ELSE 0

\* the value of the first n characters of s, all digits of the radix
RECURSIVE DigitsValue(_, _, _)
DigitsValue(s, n, radix) ==
    IF n = 0 THEN 0
    ELSE DigitsValue(s, n - 1, radix) * radix + DigitVal(s[n])

parseInt(input) ==
    LET trimmed  == TrimStart(input)
        signed   == trimmed # <<>> /\ Head(trimmed) \in {"+", "-"}
        sign     == IF trimmed # <<>> /\ Head(trimmed) = "-" THEN -1 ELSE 1
        unsigned == IF signed THEN Tail(trimmed) ELSE trimmed
        hex      == Len(unsigned) >= 2 /\ unsigned[1] = "0"
                       /\ unsigned[2] \in {"x", "X"}
        radix    == IF hex THEN 16 ELSE 10
        body     == IF hex THEN Tail(Tail(unsigned)) ELSE unsigned
        n        == DigitPrefixLen(body, radix)
    IN  IF n = 0 THEN NaN ELSE Num(sign * DigitsValue(body, n, radix))

-----------------------------------------------------------------------------
(* The two stages and the error reporter *)

unsanitizedNumber_KeepsNaN(input) == UnsanitizedNumber(parseInt(input))

unsanitizedNumber(input) ==
    LET num == parseInt(input)
    IN  IF isNaN(num)
        THEN Null
        ELSE UnsanitizedNumber(parseInt(input))

\* the bounds of the condition of line 68: value > 0 && value <= 10
RangeAbove == 0

RangeUpTo == 10

inRange_ZeroAllowed(value) ==
    (value = Num(RangeAbove) \/ JsGreater(value, Num(RangeAbove)))
        /\ JsLessEq(value, Num(RangeUpTo))

inRange(value) ==
    JsGreater(value, Num(RangeAbove)) /\ JsLessEq(value, Num(RangeUpTo))

sanitizedNumber_NoNullTest(input) ==
    IF input = Null
    THEN [kind |-> "type-error"]
    ELSE IF inRange(input.value)
         THEN SanitizedNumber(input.value)
         ELSE Null

sanitizedNumber_NoRangeTest(input) ==
    IF input = Null
    THEN Null
    ELSE SanitizedNumber(input.value)

sanitizedNumber(input) ==
    IF input = Null
    THEN Null
    ELSE IF inRange(input.value)
         THEN SanitizedNumber(input.value)
         ELSE Null

\* whether a call with this argument reaches the condition of line 68
sanitizedNumberChecksRange(input) == input # Null

\* the line showError(x) writes: `${x} is not what I asked for.`
showErrorLine(x) == x \o <<" is not what I asked for.">>

\* Number::toString of a value, as a template literal renders it
RECURSIVE NatToText(_)
NatToText(n) ==
    IF n < 10 THEN <<DecDigits[n + 1]>>
    ELSE NatToText(n \div 10) \o <<DecDigits[(n % 10) + 1]>>

NumToText(x) ==
    IF x.nan THEN <<"N", "a", "N">>
    ELSE LET neg  == x.num < 0
             mag  == IF neg THEN -x.num ELSE x.num
             whole == NatToText(mag \div x.den)
             frac == IF mag % x.den = 0 THEN <<>> ELSE <<".", "5">>
         IN  (IF neg THEN <<"-">> ELSE <<>>) \o whole \o frac

\* line 89
promptLine == <<"Give me a number between 1 and 10:">>

\* line 115: `You did what I wanted and gave me ${finalNumber.value}!`
successLine(value) ==
    <<"You did what I wanted and gave me ">> \o NumToText(value) \o <<"!">>

-----------------------------------------------------------------------------
(* Standard input *)

NotExited == [code |-> "none"]

Exited(n) == [code |-> n]

NotCalled == [kind |-> "not-called"]

LineItem(l) == [eof |-> FALSE, line |-> l]

EofItem == [eof |-> TRUE, line |-> <<>>]

\* the lines a user sends in the runs explored
Lines ==
    { <<"0">>, <<"7">>, <<"1", "0">>, <<"1", "1">>, <<"a", "b", "c">>, <<>> }

\* what fs.readFile('/dev/stdin', 'utf8') returns: everything up to the end
\* of input, which is the first end-of-input mark, or the end of the stream
\* once the writing end is closed
EofAt(s) ==
    IF \E i \in 1..Len(s) : s[i].eof
    THEN CHOOSE i \in 1..Len(s) : s[i].eof /\ \A j \in 1..(i - 1) : ~s[j].eof
    ELSE Len(s) + 1

RECURSIVE Content(_, _)
Content(s, n) ==
    IF n = 0 THEN <<>>
    ELSE Content(s, n - 1) \o s[n].line \o <<"\n">>

readFileText(s) == Content(s, EofAt(s) - 1)

readFileRest(s) == SubSeq(s, EofAt(s) + 1, Len(s))

readFileReady(s, isClosed) == isClosed \/ \E i \in 1..Len(s) : s[i].eof

PendingEofs(s) == Cardinality({i \in 1..Len(s) : s[i].eof})

-----------------------------------------------------------------------------
(* The interaction loop *)

CallsIdle ==
    /\ text = <<>>
    /\ parsed = NotCalled
    /\ unsan = Null
    /\ sanitized = NotCalled
    /\ rangeChecked = FALSE

LoopIdle ==
    /\ pc = "start"
    /\ finalNumber = InvalidNumber
    /\ stdin = <<>>
    /\ closed = FALSE
    /\ stdout = <<>>
    /\ stderr = <<>>
    /\ exitCode = NotExited
    /\ typedLines = <<>>
    /\ reads = <<>>

Init == LoopIdle /\ CallsIdle

\* lines 88-103: the main function runs up to its first await
Start ==
    /\ pc = "start"
    /\ stdout' = Append(stdout, promptLine)
    /\ finalNumber' = InvalidNumber
    /\ pc' = "awaiting"
    /\ UNCHANGED <<stdin, closed, stderr, exitCode, typedLines, reads>>
    /\ UNCHANGED callVars

\* the user sends one line
UserSendsLine ==
    /\ pc \in {"start", "awaiting"}
    /\ ~closed
    /\ Len(typedLines) < MaxLines
    /\ \E l \in Lines :
          /\ stdin' = Append(stdin, LineItem(l))
          /\ typedLines' = Append(typedLines, l)
    /\ UNCHANGED <<pc, finalNumber, closed, stdout, stderr, exitCode, reads>>
    /\ UNCHANGED callVars

\* the user signals end of input on a terminal; the stream stays open
UserSignalsEof ==
    /\ pc \in {"start", "awaiting"}
    /\ ~closed
    /\ Len(reads) + PendingEofs(stdin) < MaxEof
    /\ stdin' = Append(stdin, EofItem)
    /\ UNCHANGED <<pc, finalNumber, closed, stdout, stderr, exitCode,
                   typedLines, reads>>
    /\ UNCHANGED callVars

\* the writing end of the stream is closed for good
UserCloses ==
    /\ pc \in {"start", "awaiting"}
    /\ ~closed
    /\ closed' = TRUE
    /\ UNCHANGED <<pc, finalNumber, stdin, stdout, stderr, exitCode,
                   typedLines, reads>>
    /\ UNCHANGED callVars

\* lines 103-115: the read completes, the rest of the iteration runs, and
\* when the loop condition fails the success line is written and the
\* program ends
Iterate ==
    /\ pc = "awaiting"
    /\ Len(reads) < MaxIter
    /\ readFileReady(stdin, closed)
    /\ LET input    == readFileText(stdin)
           numStep1 == unsanitizedNumber(input)
           numStep2 == sanitizedNumber(numStep1)
       IN  /\ reads' = Append(reads, input)
           /\ stdin' = readFileRest(stdin)
           /\ IF numStep2 # Null
              THEN /\ finalNumber' = numStep2
                   /\ stderr' = stderr
              ELSE /\ finalNumber' = finalNumber
                   /\ stderr' = Append(stderr, showErrorLine(input))
           /\ IF finalNumber'.kind # "sanitized-number"
              THEN /\ pc' = "awaiting"
                   /\ stdout' = stdout
                   /\ exitCode' = exitCode
              ELSE /\ pc' = "done"
                   /\ stdout' = Append(stdout, successLine(finalNumber'.value))
                   /\ exitCode' = Exited(0)
    /\ UNCHANGED <<closed, typedLines>>
    /\ UNCHANGED callVars

\* line 103: readFile rejects; nothing handles the rejection of the main
\* function's promise and the process ends with status 1
ReadFails ==
    /\ pc = "awaiting"
    /\ pc' = "fatal"
    /\ exitCode' = Exited(1)
    /\ UNCHANGED <<finalNumber, stdin, closed, stdout, stderr, typedLines,
                   reads>>
    /\ UNCHANGED callVars

\* lines 142-147: testUnsanitized is declared and never defined.  The
\* source says this section is not executed; where the emitted script runs
\* it all the same, the call of line 147 throws while the first read is
\* still pending and the process ends with status 1.
ModuleTailThrows ==
    /\ pc = "awaiting"
    /\ reads = <<>>
    /\ pc' = "threw"
    /\ exitCode' = Exited(1)
    /\ UNCHANGED <<finalNumber, stdin, closed, stdout, stderr, typedLines,
                   reads>>
    /\ UNCHANGED callVars

Next ==
    \/ Start
    \/ UserSendsLine
    \/ UserSignalsEof
    \/ UserCloses
    \/ Iterate
    \/ ReadFails
    \/ ModuleTailThrows

Spec == Init /\ [][Next]_vars

-----------------------------------------------------------------------------
(* Direct calls of the two stages *)

Alphabet == {"0", "1", "7", "a", "x", "-", " ", "\n"}

TextsOfLen(n) == [1..n -> Alphabet]

Texts == UNION {TextsOfLen(n) : n \in 0..MaxLen}

Payloads ==
    {Num(n) : n \in (0 - MaxVal)..MaxVal}
        \cup {Half(k) : k \in {j \in (0 - 2 * MaxVal)..(2 * MaxVal) : j % 2 = 1}}
        \cup {NaN}

SanitizeArgs == {Null} \cup {UnsanitizedNumber(v) : v \in Payloads}

InitCalls ==
    /\ LoopIdle
    /\ parsed = NotCalled
    /\ sanitized = NotCalled
    /\ rangeChecked = FALSE
    /\ \/ text \in Texts /\ unsan = Null
       \/ text = <<>> /\ unsan \in SanitizeArgs

\* lines 45-55
CallUnsanitizedNumber ==
    /\ parsed = NotCalled
    /\ parsed' = unsanitizedNumber(text)
    /\ UNCHANGED <<text, unsan, sanitized, rangeChecked>>
    /\ UNCHANGED loopVars

\* lines 63-77
CallSanitizedNumber ==
    /\ sanitized = NotCalled
    /\ sanitized' = sanitizedNumber(unsan)
    /\ rangeChecked' = sanitizedNumberChecksRange(unsan)
    /\ UNCHANGED <<text, unsan, parsed>>
    /\ UNCHANGED loopVars

NextCalls ==
    \/ CallUnsanitizedNumber
    \/ CallSanitizedNumber

SpecCalls == InitCalls /\ [][NextCalls]_vars

-----------------------------------------------------------------------------
(* Vocabulary of the properties *)

IsInteger(x) == ~x.nan /\ x.den = 1

\* the text after leading white space and one optional sign
LitBody(s) ==
    LET t == TrimStart(s)
    IN  IF t # <<>> /\ Head(t) \in {"+", "-"} THEN Tail(t) ELSE t

LitNegative(s) ==
    LET t == TrimStart(s) IN t # <<>> /\ Head(t) = "-"

\* s begins (white space aside) with a base-10 integer literal
HasLeadingInt(s) == DigitPrefixLen(LitBody(s), 10) > 0

\* the integer that literal denotes
LeadingInt(s) ==
    LET b == LitBody(s)
        m == DigitsValue(b, DigitPrefixLen(b, 10), 10)
    IN  IF LitNegative(s) THEN 0 - m ELSE m

\* a line as the input channel carries it
RawLine(l) == l \o <<"\n">>

\* the parse-then-sanitize pipeline accepts the line
Accepts(l) == sanitizedNumber(unsanitizedNumber(RawLine(l))) # Null

AcceptedValue(l) == sanitizedNumber(unsanitizedNumber(RawLine(l))).value

\* the lines that reads have taken from the channel so far
ConsumedCount ==
    Len(typedLines) - Cardinality({i \in 1..Len(stdin) : ~stdin[i].eof})

-----------------------------------------------------------------------------
(* Properties of the two stages, under SpecCalls *)

\* C1: for every integer n, sanitizedNumber on an UnsanitizedNumber wrapping
\* n returns a SanitizedNumber wrapping n exactly when 1 <= n <= 10, and
\* null for every other n (0 and 11 among them).
C1_RangeInclusive ==
    (sanitized # NotCalled /\ unsan # Null /\ IsInteger(unsan.value)) =>
        IF 1 <= unsan.value.num /\ unsan.value.num <= 10
        THEN sanitized = SanitizedNumber(Num(unsan.value.num))
        ELSE sanitized = Null

C1_Witness ==
    /\ unsan = UnsanitizedNumber(Num(10))
    /\ sanitized = SanitizedNumber(Num(10))

\* C2: for every text whose leading portion is a base-10 integer literal
\* denoting n, unsanitizedNumber returns an UnsanitizedNumber whose value is
\* n; no other base is used (a text starting with "0x" is read as 0).
C2_LeadingDecimalParsed ==
    (parsed # NotCalled /\ HasLeadingInt(text)) =>
        parsed = UnsanitizedNumber(Num(LeadingInt(text)))

\* C3: for every text (the empty one included) whose leading content is not
\* a base-10 integer, unsanitizedNumber returns null; no call returns an
\* UnsanitizedNumber whose value is NaN, and no call ends any other way.
C3_NoIntegerGivesNull ==
    parsed # NotCalled =>
        /\ parsed.kind \in {"null", "unsanitized-number"}
        /\ ~HasLeadingInt(text) => parsed = Null
        /\ parsed.kind = "unsanitized-number" => ~isNaN(parsed.value)

C3_Witness ==
    /\ text = <<"x", "7">>
    /\ parsed = Null

\* C8: sanitizedNumber applied to null returns null, without evaluating the
\* range condition.
C8_NullShortCircuit ==
    (sanitized # NotCalled /\ unsan = Null) =>
        sanitized = Null /\ ~rangeChecked

C8_Witness ==
    /\ unsan = Null
    /\ sanitized = Null

\* C10: sanitizedNumber called with an UnsanitizedNumber whose payload is
\* not an integer (0.5, 9.5, NaN) returns null.
C10_NonIntegerRejected ==
    (sanitized # NotCalled /\ unsan # Null /\ ~IsInteger(unsan.value)) =>
        sanitized = Null

-----------------------------------------------------------------------------
(* Properties of the interaction loop, under Spec *)

\* C4: when the program has ended in success, its output is the prompt
\* once, then one diagnostic per rejected line, in input order, each echoing
\* that line's raw text, then one success message carrying the value of the
\* first accepted line.
C4_OutputPerLine ==
    pc = "done" =>
        \E k \in 1..Len(typedLines) :
            /\ Accepts(typedLines[k])
            /\ \A j \in 1..(k - 1) : ~Accepts(typedLines[j])
            /\ stdout = <<promptLine, successLine(AcceptedValue(typedLines[k]))>>
            /\ stderr = [j \in 1..(k - 1) |-> showErrorLine(RawLine(typedLines[j]))]

\* C5: the iteration that reads the first acceptable line ends in DONE, with
\* the success message written once for that line's value and status 0; so
\* while the loop is still awaiting, no acceptable line has been read.
C5_AcceptedLineEndsLoop ==
    /\ pc = "awaiting" =>
          \A k \in 1..ConsumedCount : ~Accepts(typedLines[k])
    /\ pc = "done" =>
          /\ exitCode = Exited(0)
          /\ Len(stdout) = 2
          /\ stdout[2] = successLine(finalNumber.value)
          /\ \E k \in 1..ConsumedCount :
                /\ Accepts(typedLines[k])
                /\ \A j \in 1..(k - 1) : ~Accepts(typedLines[j])
                /\ finalNumber = SanitizedNumber(AcceptedValue(typedLines[k]))

\* C6: a read that completes on a closed, drained input channel while the
\* loop is awaiting ends the program with a fatal error and a non-zero
\* status, and writes no diagnostic for a rejected attempt.
C6_ClosedChannelIsFatal ==
    [][ (pc = "awaiting" /\ closed /\ stdin = <<>> /\ reads' # reads) =>
            (pc' = "fatal" /\ exitCode' = Exited(1) /\ stderr' = stderr) ]_vars

\* C7: the k-th iteration validates the k-th input line; no line is skipped
\* or consumed together with another, and the lines not yet read remain
\* available.
C7_OneLinePerIteration ==
    /\ \A k \in 1..Len(reads) :
          reads[k] # <<>> =>
              k <= Len(typedLines) /\ reads[k] = RawLine(typedLines[k])
    /\ ConsumedCount <= Len(reads)

\* C9: finalNumber is the InvalidNumber placeholder while the loop awaits,
\* and otherwise a SanitizedNumber with an integer payload in [1, 10]; it
\* is never an UnsanitizedNumber; a rejected attempt leaves it unchanged;
\* once sanitized it never changes; the success message, the one place that
\* reads the payload, is written only from a sanitized finalNumber.
C9_StateOk ==
    /\ finalNumber.kind \in {"invalid-number", "sanitized-number"}
    /\ finalNumber.kind = "sanitized-number" =>
          /\ IsInteger(finalNumber.value)
          /\ 1 <= finalNumber.value.num
          /\ finalNumber.value.num <= 10
    /\ pc \in {"start", "awaiting"} => finalNumber = InvalidNumber
    /\ pc = "done" <=> finalNumber.kind = "sanitized-number"
    /\ \A i \in 1..Len(stdout) :
          stdout[i] # promptLine =>
              /\ finalNumber.kind = "sanitized-number"
              /\ stdout[i] = successLine(finalNumber.value)

C9_StepOk ==
    /\ finalNumber.kind = "sanitized-number" => finalNumber' = finalNumber
    /\ stderr' # stderr => finalNumber' = finalNumber
    /\ finalNumber' # finalNumber => finalNumber'.kind = "sanitized-number"

C9_FinalNumberLifecycle == []C9_StateOk /\ [][C9_StepOk]_vars

C9_Witness ==
    /\ pc = "done"
    /\ stderr # <<>>
    /\ finalNumber = SanitizedNumber(Num(10))

=============================================================================
